---- MODULE Spec2Model ----
(***************************************************************************)
(* Hot-swap of a dynamically loaded score operator (main.cpp).             *)
(*                                                                         *)
(* Threads: main, the hot-swap controller, the statistics reporter and the *)
(* business (worker) threads.  Every access to shared memory (g_operator,  *)
(* the shared_ptr control blocks, the atomic counters, g_print_mutex, the  *)
(* dynamic loader) is one step; thread-local code is folded into the step  *)
(* that follows it.  The build modelled is the one with assert() enabled.  *)
(***************************************************************************)
EXTENDS Integers, Sequences, FiniteSets, TLC

\* ---- bounds ------------------------------------------------------------
NumWorkers == 2       \* THREAD_NUM business threads (4 in main)
total_rounds == 2     \* rounds per business thread (20 in the source)
NumReports == 1       \* reports of the statistics thread (6 in main)

\* ---- constants of the program ------------------------------------------
V1 == "./score_op_v1.so"
V2 == "./score_op_v2.so"
Paths == {V1, V2}
InitialPath == V1
Script == <<V2, V1, V2>>

Workers == 1..NumWorkers
HThreads == {"main", "ctrl"}
PThreads == {"main", "stats"}
\* What a module path can hold: a good module, no file, a module without
\* the two entry points, a module whose factory returns null.
ModKinds == {"ok", "missing", "nosym", "nullinst"}

NameOf(p) == IF p = V1 THEN "ScoreOperatorV1" ELSE "ScoreOperatorV2"

VARIABLES
  proc,              \* "running" | "aborted" (assert) | "crashed" (UB outcome)
  modKind,           \* what the file system holds at each module path
  modOpen,           \* dynamic loader: open count per module path
  holders,           \* every OperatorHolder ever allocated, by allocation order
  g_operator,        \* the global slot: 0 (null) or an index into holders
  hu,                \* hot_update frame of main and of the controller
  mainPc, ctrlPc, ctrlIdx,
  wpc, round, op_ptr,            \* business threads
  wlocal,            \* business threads: the round's score and op_name
  ps, reports,                   \* print_stats frames, reports done
  total_requests, v1_requests, v2_requests, hot_update_count,
  g_print_mutex,     \* 0 (free) or the worker that holds it
  pubCount,          \* history: number of atomic_store publishes so far
  lastSeen,          \* history: publish index of each worker's last snapshot
  uaf,               \* history: a destroyed bundle was used
  nullDeref          \* history: a null operator instance was dereferenced

vars == <<proc, modKind, modOpen, holders, g_operator, hu, mainPc, ctrlPc,
          ctrlIdx, wpc, round, op_ptr, ps, reports, total_requests,
          v1_requests, v2_requests, hot_update_count, g_print_mutex,
          pubCount, lastSeen, uaf, nullDeref, wlocal>>

statsVars == <<total_requests, v1_requests, v2_requests, hot_update_count>>
workerVars == <<wpc, round, op_ptr, wlocal, lastSeen, g_print_mutex, uaf>>
threadVars == <<mainPc, ctrlPc, ctrlIdx>>
printVars == <<ps, reports>>
loaderVars == <<modKind, modOpen, holders>>
histVars == <<pubCount, nullDeref>>

\* ---- OperatorHolder and its shared_ptr control block --------------------
\* A freshly make_shared'ed OperatorHolder owned by one local shared_ptr.
NewHolder(p) ==
  [path |-> p, handle |-> FALSE, op |-> FALSE, destroy_func |-> FALSE,
   rc |-> 1, dtorRuns |-> 0, events |-> <<>>, pubIdx |-> 0]

\* Variant: one dlclose unloads the module whatever its open count.
DlCloseUnloads(R, b) ==
  LET p == R.h[b].path IN
  [h |-> [R.h EXCEPT ![b].events = Append(@, "dlclose")],
   m |-> [R.m EXCEPT ![p] = 0]]

\* dlclose on the handle of holder b.
DlClose(R, b) ==
  LET p == R.h[b].path IN
  [h |-> [R.h EXCEPT ![b].events = Append(@, "dlclose")],
   m |-> [R.m EXCEPT ![p] = IF @ > 0 THEN @ - 1 ELSE 0]]

\* Variant: the module is closed before the instance is destroyed.
DestructorCloseFirst(R, b) ==
  LET x  == R.h[b]
      R1 == [h |-> [R.h EXCEPT ![b].dtorRuns = @ + 1], m |-> R.m]
      R2 == IF x.handle THEN DlClose(R1, b) ELSE R1
  IN [h |-> [R2.h EXCEPT ![b].events =
                          IF x.op /\ x.destroy_func
                          THEN Append(@, "destroy_func") ELSE @],
      m |-> R2.m]

\* ~OperatorHolder: destroy the instance, then close the module.
Destructor(R, b) ==
  LET x  == R.h[b]
      R1 == [h |-> [R.h EXCEPT ![b].dtorRuns = @ + 1,
                               ![b].events =
                                  IF x.op /\ x.destroy_func
                                  THEN Append(@, "destroy_func") ELSE @],
             m |-> R.m]
  IN IF x.handle THEN DlClose(R1, b) ELSE R1

\* Copying a shared_ptr: one more owner.
AddRef(R, b) ==
  IF b = 0 THEN R ELSE [h |-> [R.h EXCEPT ![b].rc = @ + 1], m |-> R.m]

\* Destroying a shared_ptr: one owner less, the last one runs the destructor.
Release(R, b) ==
  IF b = 0 THEN R
  ELSE LET R1 == [h |-> [R.h EXCEPT ![b].rc = @ - 1], m |-> R.m]
       IN IF R1.h[b].rc = 0 THEN Destructor(R1, b) ELSE R1

Mem == [h |-> holders, m |-> modOpen]

\* A round's locals before compute_score: no score, no op_name.
NoLocals == [by |-> 0, op_name |-> ""]

IdleFrame ==
  [pc |-> "idle", so_file |-> "", holder |-> 0, new_holder |-> 0,
   old_holder |-> 0, loaded |-> "none", g0 |-> 0, c0 |-> 0]

Init ==
  /\ proc = "running"
  /\ modKind \in [Paths -> ModKinds]
  /\ modOpen = [p \in Paths |-> 0]
  /\ holders = <<>>
  /\ g_operator = 0
  /\ hu = [t \in HThreads |-> IdleFrame]
  /\ mainPc = "init"
  /\ ctrlPc = "notstarted"
  /\ ctrlIdx = 1
  /\ wpc = [w \in Workers |-> "notstarted"]
  /\ round = [w \in Workers |-> 0]
  /\ op_ptr = [w \in Workers |-> 0]
  /\ wlocal = [w \in Workers |-> NoLocals]
  /\ ps = [t \in PThreads |-> "idle"]
  /\ reports = 0
  /\ total_requests = 0
  /\ v1_requests = 0
  /\ v2_requests = 0
  /\ hot_update_count = 0
  /\ g_print_mutex = 0
  /\ pubCount = 0
  /\ lastSeen = [w \in Workers |-> 0]
  /\ uaf = FALSE
  /\ nullDeref = FALSE

\* ---- hot_update --------------------------------------------------------
\* Entry of hot_update(so_file) on thread t.
EnterHotUpdate(t, p) ==
  hu' = [hu EXCEPT ![t] = [IdleFrame EXCEPT !.pc = "dlopen", !.so_file = p,
                                           !.g0 = g_operator,
                                           !.c0 = hot_update_count]]

\* Variant: the result of load_operator is not checked.
AfterLoadUnchecked(f) == [f EXCEPT !.pc = "atomic_load"]

\* if (!new_holder) return false;
AfterLoad(f) ==
  IF f.new_holder = 0 THEN [f EXCEPT !.pc = "ret_false"]
  ELSE [f EXCEPT !.pc = "atomic_load"]

\* load_operator: make_shared and dlopen; a failed dlopen returns nullptr
\* and the local holder is destroyed on the way out.
HDlopen(t) ==
  /\ proc = "running"
  /\ hu[t].pc = "dlopen"
  /\ LET p == hu[t].so_file
         b == Len(holders) + 1
         R0 == [h |-> Append(holders, NewHolder(p)), m |-> modOpen]
     IN IF modKind[p] = "missing"
        THEN LET R1 == Release(R0, b) IN
             /\ holders' = R1.h
             /\ modOpen' = R1.m
             /\ hu' = [hu EXCEPT ![t] = AfterLoad([@ EXCEPT !.loaded = "fail"])]
        ELSE /\ holders' = [R0.h EXCEPT ![b].handle = TRUE,
                                        ![b].events = Append(@, "dlopen")]
             /\ modOpen' = [modOpen EXCEPT ![p] = @ + 1]
             /\ hu' = [hu EXCEPT ![t].pc = "resolve", ![t].holder = b]
  /\ UNCHANGED <<proc, modKind, g_operator, threadVars, workerVars, printVars,
                 statsVars, histVars>>

\* holder->op = create(); holder->destroy_func = destroy; the factory's
\* result is not examined.
Assemble(x, inst) == [x EXCEPT !.op = inst, !.destroy_func = TRUE]

\* dlclose was called on a handle that was not open any more.
ClosedTwice(x) ==
  Len(SelectSeq(x.events, LAMBDA e : e = "dlclose")) >
  Len(SelectSeq(x.events, LAMBDA e : e = "dlopen"))

\* load_operator: dlsym of create_operator and destroy_operator.  When one
\* is missing the handle is closed, nullptr is returned and the local holder
\* is destroyed with its handle field still set; closing a handle that is no
\* longer open is undefined: the process may crash or carry on.  Otherwise
\* the instance is created and the holder returned.
HResolve(t) ==
  /\ proc = "running"
  /\ hu[t].pc = "resolve"
  /\ LET p == hu[t].so_file
         b == hu[t].holder
     IN IF modKind[p] = "nosym"
        THEN LET R1 == DlClose(Mem, b)
                 R2 == Release(R1, b) IN
             /\ holders' = R2.h
             /\ modOpen' = R2.m
             /\ hu' = [hu EXCEPT ![t] = AfterLoad([@ EXCEPT !.holder = 0,
                                                           !.loaded = "fail"])]
             /\ \E crash \in BOOLEAN :
                  proc' = IF crash /\ ClosedTwice(R2.h[b])
                          THEN "crashed" ELSE proc
        ELSE /\ holders' = [holders EXCEPT
                              ![b] = Assemble(@, modKind[p] # "nullinst")]
             /\ hu' = [hu EXCEPT ![t] = AfterLoad([@ EXCEPT !.new_holder = b,
                                                           !.holder = 0,
                                                           !.loaded = "ok"])]
             /\ UNCHANGED <<modOpen, proc>>
  /\ UNCHANGED <<modKind, g_operator, threadVars, workerVars, printVars,
                 statsVars, histVars>>

\* Variant: old_holder taken without becoming an owner.
HLoadOldRaw(f, R) ==
  [f |-> [f EXCEPT !.pc = "atomic_store", !.old_holder = g_operator],
   R |-> R]

\* Variant: one reference to the old bundle is never given back.
HLoadOldLeaked(f, R) ==
  [f |-> [f EXCEPT !.pc = "atomic_store", !.old_holder = g_operator],
   R |-> AddRef(AddRef(R, g_operator), g_operator)]

\* auto old_holder = std::atomic_load(&g_operator);
HLoadOld(f, R) ==
  [f |-> [f EXCEPT !.pc = "atomic_store", !.old_holder = g_operator],
   R |-> AddRef(R, g_operator)]

HAtomicLoad(t) ==
  /\ proc = "running"
  /\ hu[t].pc = "atomic_load"
  /\ LET x == HLoadOld(hu[t], Mem) IN
       /\ hu' = [hu EXCEPT ![t] = x.f]
       /\ holders' = x.R.h
       /\ modOpen' = x.R.m
  /\ UNCHANGED <<proc, modKind, g_operator, threadVars, workerVars, printVars,
                 statsVars, histVars>>

\* Variant: the slot does not become an owner of the new bundle.
StoreSlotNoCopy(R, new, cur) == [g |-> new, R |-> Release(R, cur)]

\* Variant: the store only takes effect on an empty slot.
StoreSlotIfEmpty(R, new, cur) ==
  IF cur = 0 THEN [g |-> new, R |-> AddRef(R, new)] ELSE [g |-> cur, R |-> R]

\* std::atomic_store(&g_operator, new_holder): the slot takes a copy of
\* new_holder and gives up its reference to the bundle it held.
StoreSlot(R, new, cur) ==
  LET R1 == AddRef(R, new)
      R2 == Release(R1, cur)
  IN [g |-> new, R |-> R2]

\* Variant: the store waits until only the slot and old_holder own the
\* bundle being replaced.
StoreReadyWhenDrained(t) ==
  /\ hu[t].pc = "atomic_store"
  /\ hu[t].old_holder # 0 => holders[hu[t].old_holder].rc <= 2

\* What the store waits for: nothing but hot_update having reached it.
StoreReady(t) == hu[t].pc = "atomic_store"

HAtomicStore(t) ==
  /\ proc = "running"
  /\ StoreReady(t)
  /\ LET x == StoreSlot(Mem, hu[t].new_holder, g_operator) IN
       /\ g_operator' = x.g
       /\ pubCount' = pubCount + 1
       /\ holders' = IF hu[t].new_holder = 0 THEN x.R.h
                    ELSE [x.R.h EXCEPT ![hu[t].new_holder].pubIdx =
                                          pubCount + 1]
       /\ modOpen' = x.R.m
  /\ hu' = [hu EXCEPT ![t].pc = "count"]
  /\ UNCHANGED <<proc, modKind, threadVars, workerVars, printVars, statsVars,
                 nullDeref>>

\* g_stats.hot_update_count++, then the message with
\* new_holder->op->name(): a virtual call through op.  Through a null op it
\* is undefined: the process may crash or carry on.
HCountPrint(t) ==
  /\ proc = "running"
  /\ hu[t].pc = "count"
  /\ hot_update_count' = hot_update_count + 1
  /\ LET b == hu[t].new_holder IN
       IF b # 0 /\ holders[b].op
       THEN UNCHANGED <<proc, nullDeref>>
       ELSE /\ nullDeref' = TRUE
            /\ \E crash \in BOOLEAN :
                 proc' = IF crash THEN "crashed" ELSE proc
  /\ hu' = [hu EXCEPT ![t].pc = "return"]
  /\ UNCHANGED <<loaderVars, g_operator, threadVars, workerVars, printVars,
                 total_requests, v1_requests, v2_requests, pubCount>>

\* The grace sleep and return true: old_holder, then new_holder go out of
\* scope.
HReturn(t) ==
  /\ proc = "running"
  /\ hu[t].pc = "return"
  /\ LET R1 == Release(Mem, hu[t].old_holder)
         R2 == Release(R1, hu[t].new_holder) IN
       /\ holders' = R2.h
       /\ modOpen' = R2.m
  /\ hu' = [hu EXCEPT ![t].pc = "ret_true", ![t].old_holder = 0,
                      ![t].new_holder = 0]
  /\ UNCHANGED <<proc, modKind, g_operator, threadVars, workerVars, printVars,
                 statsVars, histVars>>

\* Variant: the loop runs while i <= total_rounds.
NextRoundOffByOne(w) ==
  /\ round' = [round EXCEPT ![w] = @ + 1]
  /\ wpc' = [wpc EXCEPT ![w] = IF round[w] + 1 <= total_rounds
                               THEN "snapshot" ELSE "final_lock"]

\* ---- business threads --------------------------------------------------
\* End of one round: ++i, or the end of the loop.
NextRound(w) ==
  /\ round' = [round EXCEPT ![w] = @ + 1]
  /\ wpc' = [wpc EXCEPT ![w] = IF round[w] + 1 < total_rounds
                               THEN "snapshot" ELSE "final_lock"]

\* Variant: the worker reads the raw pointer without becoming an owner.
SnapshotRaw(R, g) == [p |-> g, R |-> R]

\* auto op_ptr = std::atomic_load(&g_operator);
Snapshot(R, g) == [p |-> g, R |-> AddRef(R, g)]

\* What the load waits for: nothing but the worker having reached it.
SnapshotReady(w) == wpc[w] = "snapshot"

WSnapshot(w) ==
  /\ proc = "running"
  /\ SnapshotReady(w)
  /\ LET x == Snapshot(Mem, g_operator) IN
       /\ op_ptr' = [op_ptr EXCEPT ![w] = x.p]
       /\ holders' = x.R.h
       /\ modOpen' = x.R.m
       /\ lastSeen' = [lastSeen EXCEPT ![w] =
                         IF x.p = 0 THEN @ ELSE holders[x.p].pubIdx]
  /\ wpc' = [wpc EXCEPT ![w] = "compute"]
  /\ UNCHANGED <<proc, modKind, g_operator, hu, threadVars, round, wlocal,
                 printVars, statsVars, g_print_mutex, uaf, histVars>>

\* Variant: only the outer pointer is tested, not the instance.
SoftFailPtrOnly(R, p) == p = 0

\* if (!op_ptr || !op_ptr->op) continue;
SoftFail(R, p) == p = 0 \/ ~R.h[p].op

\* A call through op_ptr->op reaches a destroyed bundle.
Dangling(p) == p # 0 /\ holders[p].dtorRuns > 0

\* Variant: the name is asked of the slot's current bundle.
RecordedNameFromSlot(w) == NameOf(holders[g_operator].path)

\* g_stats.record_request(op_ptr->op->name()): the argument op_name.
RecordedName(w) == NameOf(holders[op_ptr[w]].path)

\* The null check, then compute_score(f) (the score is tagged with the
\* bundle that computed it), then record_request's total_requests++ with
\* op_ptr->op->name() as its argument.
WCompute(w) ==
  /\ proc = "running"
  /\ wpc[w] = "compute"
  /\ IF SoftFail(Mem, op_ptr[w])
     THEN LET R1 == Release(Mem, op_ptr[w]) IN
          /\ holders' = R1.h
          /\ modOpen' = R1.m
          /\ op_ptr' = [op_ptr EXCEPT ![w] = 0]
          /\ NextRound(w)
          /\ UNCHANGED <<total_requests, uaf, wlocal>>
     ELSE /\ total_requests' = total_requests + 1
          /\ wlocal' = [wlocal EXCEPT ![w] = [by |-> op_ptr[w],
                                              op_name |-> RecordedName(w)]]
          /\ uaf' = (uaf \/ Dangling(op_ptr[w]))
          /\ wpc' = [wpc EXCEPT ![w] = "record_variant"]
          /\ UNCHANGED <<holders, modOpen, op_ptr, round>>
  /\ UNCHANGED <<proc, modKind, g_operator, hu, threadVars, lastSeen,
                 printVars, v1_requests, v2_requests, hot_update_count,
                 g_print_mutex, histVars>>

\* Variant: the second name is compared with a misspelt literal.
VariantCountersMisspelt(n, c1, c2) ==
  IF n = "ScoreOperatorV1" THEN [v1 |-> c1 + 1, v2 |-> c2]
  ELSE IF n = "ScoreOperatorv2" THEN [v1 |-> c1, v2 |-> c2 + 1]
  ELSE [v1 |-> c1, v2 |-> c2]

\* record_request after total_requests++: the counter chosen by op_name.
VariantCounters(n, c1, c2) ==
  IF n = "ScoreOperatorV1" THEN [v1 |-> c1 + 1, v2 |-> c2]
  ELSE IF n = "ScoreOperatorV2" THEN [v1 |-> c1, v2 |-> c2 + 1]
  ELSE [v1 |-> c1, v2 |-> c2]

\* record_request: the per-variant counter chosen by the operator's name.
WRecordVariant(w) ==
  /\ proc = "running"
  /\ wpc[w] = "record_variant"
  /\ LET x == VariantCounters(wlocal[w].op_name,
                              v1_requests, v2_requests) IN
       /\ v1_requests' = x.v1
       /\ v2_requests' = x.v2
  /\ wpc' = [wpc EXCEPT ![w] = "print"]
  /\ UNCHANGED <<proc, loaderVars, g_operator, hu, threadVars, round, op_ptr,
                 wlocal, lastSeen, printVars, total_requests, hot_update_count,
                 g_print_mutex, uaf, histVars>>

\* The round's output line under std::lock_guard(g_print_mutex), with
\* op_ptr->op->name() once more.
WPrint(w) ==
  /\ proc = "running"
  /\ wpc[w] = "print"
  /\ g_print_mutex = 0
  /\ uaf' = (uaf \/ Dangling(op_ptr[w]))
  /\ wpc' = [wpc EXCEPT ![w] = "release"]
  /\ UNCHANGED <<proc, loaderVars, g_operator, hu, threadVars, round, op_ptr,
                 wlocal, lastSeen, printVars, statsVars, g_print_mutex,
                 histVars>>

\* The sleep, then op_ptr goes out of scope at the end of the loop body.
WRelease(w) ==
  /\ proc = "running"
  /\ wpc[w] = "release"
  /\ LET R1 == Release(Mem, op_ptr[w]) IN
       /\ holders' = R1.h
       /\ modOpen' = R1.m
  /\ op_ptr' = [op_ptr EXCEPT ![w] = 0]
  /\ wlocal' = [wlocal EXCEPT ![w] = NoLocals]
  /\ NextRound(w)
  /\ UNCHANGED <<proc, modKind, g_operator, hu, threadVars, lastSeen,
                 printVars, statsVars, g_print_mutex, uaf, histVars>>

\* After the loop: std::lock_guard<std::mutex> lock(g_print_mutex);
WFinalLock(w) ==
  /\ proc = "running"
  /\ wpc[w] = "final_lock"
  /\ g_print_mutex = 0
  /\ g_print_mutex' = w
  /\ wpc' = [wpc EXCEPT ![w] = "final_print"]
  /\ UNCHANGED <<proc, loaderVars, g_operator, hu, threadVars, round, op_ptr,
                 wlocal, lastSeen, printVars, statsVars, uaf, histVars>>

\* Variant: the thread function returns without unlocking.
WFinishKeepLock(w) ==
  /\ proc = "running"
  /\ wpc[w] = "final_print"
  /\ wpc' = [wpc EXCEPT ![w] = "done"]
  /\ UNCHANGED <<proc, loaderVars, g_operator, hu, threadVars, round, op_ptr,
                 wlocal, lastSeen, printVars, statsVars, uaf, histVars,
                 g_print_mutex>>

\* The closing message under the mutex; the thread function returns.
WFinish(w) ==
  /\ proc = "running"
  /\ wpc[w] = "final_print"
  /\ g_print_mutex' = 0
  /\ wpc' = [wpc EXCEPT ![w] = "done"]
  /\ UNCHANGED <<proc, loaderVars, g_operator, hu, threadVars, round, op_ptr,
                 wlocal, lastSeen, printVars, statsVars, uaf, histVars>>

\* ---- Statistics::print_stats -------------------------------------------
\* The four counters are loaded one after the other and written to the
\* console; ps[t] is the load thread t is about to make.
PReadTotal(t) ==
  /\ proc = "running"
  /\ ps[t] = "total"
  /\ ps' = [ps EXCEPT ![t] = "v1"]
  /\ UNCHANGED <<proc, loaderVars, g_operator, hu, threadVars, workerVars,
                 reports, statsVars, histVars>>

PReadV1(t) ==
  /\ proc = "running"
  /\ ps[t] = "v1"
  /\ ps' = [ps EXCEPT ![t] = "v2"]
  /\ UNCHANGED <<proc, loaderVars, g_operator, hu, threadVars, workerVars,
                 reports, statsVars, histVars>>

PReadV2(t) ==
  /\ proc = "running"
  /\ ps[t] = "v2"
  /\ ps' = [ps EXCEPT ![t] = "hot"]
  /\ UNCHANGED <<proc, loaderVars, g_operator, hu, threadVars, workerVars,
                 reports, statsVars, histVars>>

\* The last load; print_stats returns to its caller: the statistics thread
\* has made one more report, main returns.
PReadHot(t) ==
  /\ proc = "running"
  /\ ps[t] = "hot"
  /\ ps' = [ps EXCEPT ![t] = "idle"]
  /\ IF t = "stats"
     THEN /\ reports' = reports + 1
          /\ UNCHANGED mainPc
     ELSE /\ mainPc' = "done"
          /\ UNCHANGED reports
  /\ UNCHANGED <<proc, loaderVars, g_operator, hu, ctrlPc, ctrlIdx,
                 workerVars, statsVars, histVars>>

\* ---- the statistics thread ---------------------------------------------
Started == mainPc \in {"join", "final", "done"}

StatsCall ==
  /\ proc = "running"
  /\ Started
  /\ ps["stats"] = "idle"
  /\ reports < NumReports
  /\ ps' = [ps EXCEPT !["stats"] = "total"]
  /\ UNCHANGED <<proc, loaderVars, g_operator, hu, threadVars, workerVars,
                 reports, statsVars, histVars>>

StatsDone == ps["stats"] = "idle" /\ reports = NumReports

\* ---- hot_swap_controller -----------------------------------------------
CtrlCall ==
  /\ proc = "running"
  /\ ctrlPc = "sleep"
  /\ EnterHotUpdate("ctrl", Script[ctrlIdx])
  /\ ctrlPc' = "loading"
  /\ UNCHANGED <<proc, loaderVars, g_operator, mainPc, ctrlIdx, workerVars,
                 printVars, statsVars, histVars>>

\* assert(hot_update(...)): a false return aborts the process.
CtrlAssert ==
  /\ proc = "running"
  /\ ctrlPc = "loading"
  /\ hu["ctrl"].pc \in {"ret_true", "ret_false"}
  /\ IF hu["ctrl"].pc = "ret_false"
     THEN /\ proc' = "aborted"
          /\ UNCHANGED <<hu, ctrlPc, ctrlIdx>>
     ELSE /\ hu' = [hu EXCEPT !["ctrl"] = IdleFrame]
          /\ ctrlIdx' = ctrlIdx + 1
          /\ ctrlPc' = IF ctrlIdx + 1 > Len(Script) THEN "done" ELSE "sleep"
          /\ UNCHANGED proc
  /\ UNCHANGED <<loaderVars, g_operator, mainPc, workerVars, printVars,
                 statsVars, histVars>>

\* ---- main ---------------------------------------------------------------
\* assert(hot_update("./score_op_v1.so")): the call.
MainLoad ==
  /\ proc = "running"
  /\ mainPc = "init"
  /\ EnterHotUpdate("main", InitialPath)
  /\ mainPc' = "loading"
  /\ UNCHANGED <<proc, loaderVars, g_operator, ctrlPc, ctrlIdx, workerVars,
                 printVars, statsVars, histVars>>

\* Variant: main does not wait for the initial hot_update to return.
MainAssertNoWait ==
  /\ proc = "running"
  /\ mainPc = "loading"
  /\ mainPc' = "spawn"
  /\ UNCHANGED <<proc, hu, loaderVars, g_operator, ctrlPc, ctrlIdx,
                 workerVars, printVars, statsVars, histVars>>

MainAssert ==
  /\ proc = "running"
  /\ mainPc = "loading"
  /\ hu["main"].pc \in {"ret_true", "ret_false"}
  /\ IF hu["main"].pc = "ret_false"
     THEN /\ proc' = "aborted"
          /\ UNCHANGED <<hu, mainPc>>
     ELSE /\ hu' = [hu EXCEPT !["main"] = IdleFrame]
          /\ mainPc' = "spawn"
          /\ UNCHANGED proc
  /\ UNCHANGED <<loaderVars, g_operator, ctrlPc, ctrlIdx, workerVars,
                 printVars, statsVars, histVars>>

\* The business threads, the controller thread and the statistics thread
\* are created.
MainSpawn ==
  /\ proc = "running"
  /\ mainPc = "spawn"
  /\ wpc' = [w \in Workers |-> "snapshot"]
  /\ ctrlPc' = "sleep"
  /\ mainPc' = "join"
  /\ UNCHANGED <<proc, loaderVars, g_operator, hu, ctrlIdx, round, op_ptr,
                 wlocal, lastSeen, g_print_mutex, uaf, printVars, statsVars,
                 histVars>>

\* All joins have returned; the final print_stats begins.
MainJoin ==
  /\ proc = "running"
  /\ mainPc = "join"
  /\ \A w \in Workers : wpc[w] = "done"
  /\ ctrlPc = "done"
  /\ StatsDone
  /\ mainPc' = "final"
  /\ ps' = [ps EXCEPT !["main"] = "total"]
  /\ UNCHANGED <<proc, loaderVars, g_operator, hu, ctrlPc, ctrlIdx,
                 workerVars, reports, statsVars, histVars>>

\* ---- the program --------------------------------------------------------
HotUpdateStep(t) ==
  \/ HDlopen(t) \/ HResolve(t) \/ HAtomicLoad(t) \/ HAtomicStore(t)
  \/ HCountPrint(t) \/ HReturn(t)

WorkerStep(w) ==
  \/ WSnapshot(w) \/ WCompute(w) \/ WRecordVariant(w) \/ WPrint(w)
  \/ WRelease(w) \/ WFinalLock(w) \/ WFinish(w)

PrintStatsStep(t) ==
  PReadTotal(t) \/ PReadV1(t) \/ PReadV2(t) \/ PReadHot(t)

MainStep == MainLoad \/ MainAssert \/ MainSpawn \/ MainJoin
CtrlStep == CtrlCall \/ CtrlAssert

Next ==
  \/ MainStep
  \/ CtrlStep
  \/ StatsCall
  \/ \E t \in HThreads : HotUpdateStep(t)
  \/ \E t \in PThreads : PrintStatsStep(t)
  \/ \E w \in Workers : WorkerStep(w)

Spec == Init /\ [][Next]_vars

\* ---- type and bookkeeping ------------------------------------------------
Bundles == 1..Len(holders)

\* The shared_ptr variables that point at bundle b.
Holders(b) ==
  (IF g_operator = b THEN 1 ELSE 0)
  + Cardinality({t \in HThreads : hu[t].holder = b})
  + Cardinality({t \in HThreads : hu[t].new_holder = b})
  + Cardinality({t \in HThreads : hu[t].old_holder = b})
  + Cardinality({w \in Workers : op_ptr[w] = b})

RefCountMatches == \A b \in Bundles : holders[b].rc = Holders(b)

Count(x, e) == Len(SelectSeq(x.events, LAMBDA v : v = e))

\* Bundles that load_operator returned to hot_update.
Loaded == {b \in Bundles : holders[b].destroy_func}

\* ---- claims ---------------------------------------------------------------
\* C1: no use-after-free.  Whenever a worker holds a snapshot, and whenever
\* it has called compute_score() or name() through it, the bundle's
\* destructor has not run.
NoUseAfterFree ==
  /\ ~uaf
  /\ \A w \in Workers : op_ptr[w] # 0 => holders[op_ptr[w]].dtorRuns = 0

\* A worker has used, and still holds, a bundle that was replaced in the
\* slot and that hot_update has already let go of: it is the only owner.
C1Witness ==
  \E w \in Workers :
    /\ wpc[w] \in {"record_variant", "print", "release"}
    /\ op_ptr[w] # g_operator
    /\ holders[op_ptr[w]].rc = 1
    /\ hu["ctrl"].pc = "idle"

\* C2: exactly-once teardown.  The destructor of a bundle returned by
\* load_operator has run at most once, and it has run exactly when no
\* shared_ptr (slot, new_holder, old_holder, op_ptr) refers to the bundle.
ExactlyOnceTeardown ==
  \A b \in Loaded :
    /\ holders[b].dtorRuns <= 1
    /\ (holders[b].dtorRuns = 1) <=> (Holders(b) = 0)
    /\ Count(holders[b], "dlclose") = holders[b].dtorRuns
    /\ Count(holders[b], "destroy_func") <= holders[b].dtorRuns

\* A published bundle was replaced and torn down while a later one is live.
C2Witness ==
  \E b \in Loaded :
    /\ holders[b].pubIdx > 0
    /\ holders[b].dtorRuns = 1
    /\ Count(holders[b], "destroy_func") = 1
    /\ g_operator # 0

\* C3: monotonic visibility.  A worker's atomic_load returns the bundle of
\* the latest atomic_store completed before it, and its publish index is
\* not below the one the same worker saw in an earlier round.
MonotonicVisibility ==
  [][\A w \in Workers :
       (wpc[w] = "snapshot" /\ wpc'[w] # "snapshot") =>
         /\ op_ptr'[w] # 0
         /\ holders'[op_ptr'[w]].pubIdx = pubCount
         /\ holders'[op_ptr'[w]].pubIdx >= lastSeen[w]]_vars

\* A worker in its second round holds the bundle of a later publish while
\* another worker still holds an earlier one.
C3Witness ==
  \E w, v \in Workers :
    /\ round[w] >= 1
    /\ wpc[w] = "compute"
    /\ op_ptr[w] # 0
    /\ holders[op_ptr[w]].pubIdx >= 2
    /\ op_ptr[v] # 0
    /\ holders[op_ptr[v]].pubIdx < holders[op_ptr[w]].pubIdx

\* C4: a failed swap is a no-op.  Once load_operator has failed inside
\* hot_update, hot_update returns false, and g_operator and
\* hot_update_count are what they were when hot_update was entered.
FailedSwapIsNoOp ==
  \A t \in HThreads :
    hu[t].loaded = "fail" =>
      /\ hu[t].pc = "ret_false"
      /\ g_operator = hu[t].g0
      /\ hot_update_count = hu[t].c0

\* The controller's hot_update has failed and a worker holds a snapshot of
\* the bundle that was in the slot before the attempt.
C4Witness ==
  /\ hu["ctrl"].loaded = "fail"
  /\ hu["ctrl"].pc = "ret_false"
  /\ g_operator # 0
  /\ \E w \in Workers : wpc[w] = "compute" /\ op_ptr[w] = hu["ctrl"].g0

\* C5: the slot is never null after initialization.  After the first
\* atomic_store, g_operator refers to a bundle that has not been destroyed.
SlotNeverNull ==
  pubCount >= 1 =>
    /\ g_operator \in Bundles
    /\ holders[g_operator].dtorRuns = 0
    /\ holders[g_operator].rc >= 1

\* The slot holds the third publish while a worker still holds an older
\* bundle and an even older one has been destroyed.
C5Witness ==
  /\ pubCount >= 3
  /\ g_operator # 0
  /\ \E w \in Workers : op_ptr[w] # 0 /\ op_ptr[w] # g_operator
  /\ \E b \in Bundles : holders[b].pubIdx > 0 /\ holders[b].dtorRuns = 1

\* C6: no partially-constructed bundle is observable.  Every bundle that
\* was stored into g_operator or that a worker holds has a module handle,
\* an operator instance and a destroy function.
OnlyCompleteBundlesVisible ==
  \A b \in Bundles :
    (holders[b].pubIdx > 0 \/ g_operator = b
       \/ \E w \in Workers : op_ptr[w] = b) =>
      (holders[b].handle /\ holders[b].op /\ holders[b].destroy_func)

\* C7: instantiation failure is a load failure.  When the module's factory
\* returns null, hot_update comes out of load_operator returning false with
\* the slot as it was, and no null instance is ever dereferenced.
NullInstanceFailsLoad ==
  /\ ~nullDeref
  /\ \A t \in HThreads :
       (hu[t].pc \notin {"idle", "dlopen", "resolve"}
          /\ modKind[hu[t].so_file] = "nullinst") =>
         (hu[t].pc = "ret_false" /\ g_operator = hu[t].g0)

\* C8: load failure unwinds cleanly.  Once load_operator has failed, the
\* handle it opened, if any, has been closed exactly once.
LoadFailureUnwinds ==
  \A b \in Bundles :
    (b \notin Loaded /\ \A t \in HThreads : hu[t].holder # b) =>
      Count(holders[b], "dlclose") = Count(holders[b], "dlopen")

\* Workers between record_request's two increments.
InRecordRequest == {w \in Workers : wpc[w] = "record_variant"}

\* print_stats is at one of its loads.
Observing(t) == ps[t] \in {"total", "v1", "v2", "hot"}

\* C9 as stated: whenever the statistics thread or main reads the counters,
\* total_requests is the sum of the per-variant counters.
CountersConsistentWhenObserved ==
  \A t \in PThreads :
    Observing(t) => total_requests = v1_requests + v2_requests

\* C9 as amended: total_requests is the sum of the per-variant counters
\* plus the number of workers between record_request's two increments, so
\* it is never below the sum and exceeds it by at most the number of
\* workers; when main reads the counters after the joins the two are equal.
CounterSkewIsInFlight ==
  /\ total_requests =
       v1_requests + v2_requests + Cardinality(InRecordRequest)
  /\ (Observing("main") \/ mainPc = "done") =>
       total_requests = v1_requests + v2_requests

\* The statistics thread reads while every worker is between the two
\* increments and both variants have been counted before.
C9Witness ==
  /\ Observing("stats")
  /\ InRecordRequest = Workers
  /\ v1_requests > 0
  /\ v2_requests > 0

\* C10: in the scripted scenario hot_update_count is 3 once main has joined
\* all threads.
SwapCountIsThree ==
  (mainPc = "done" /\ \A p \in Paths : modKind[p] = "ok") =>
    hot_update_count = 3

\* Every module path holds a good module: every load succeeds.
AllLoadsSucceed == \A p \in Paths : modKind[p] = "ok"

\* Requests worker w has issued so far: its finished rounds, and the
\* current one once record_request has been entered.
Issued(w) ==
  round[w] + IF wpc[w] \in {"record_variant", "print", "release"}
             THEN 1 ELSE 0

RECURSIVE SumIssued(_)
SumIssued(S) ==
  IF S = {} THEN 0
  ELSE LET w == CHOOSE x \in S : TRUE IN Issued(w) + SumIssued(S \ {w})

\* C11: every request is counted exactly once.  In the scripted scenario
\* total_requests is at any time the number of rounds the workers have
\* issued, no worker runs more than its rounds, and when main has joined
\* all threads total_requests and v1_requests + v2_requests both equal the
\* number of workers times the rounds of each.
EveryRequestCountedOnce ==
  AllLoadsSucceed =>
    /\ total_requests = SumIssued(Workers)
    /\ \A w \in Workers : round[w] <= total_rounds
    /\ mainPc = "done" =>
         /\ total_requests = NumWorkers * total_rounds
         /\ v1_requests + v2_requests = NumWorkers * total_rounds

\* Main has returned after a run in which both variants served requests.
C11Witness ==
  /\ mainPc = "done"
  /\ AllLoadsSucceed
  /\ total_requests = NumWorkers * total_rounds
  /\ v1_requests > 0
  /\ v2_requests > 0

\* C12: a failed hot-swap does not interrupt traffic.  When a hot_update of
\* the controller has failed, no worker is stopped short of its last round:
\* the process is not brought down while a worker still has rounds to run.
TrafficSurvivesFailedSwap ==
  hu["ctrl"].loaded = "fail" =>
    (proc # "aborted" \/ \A w \in Workers : wpc[w] = "done")

\* C13: readers and writer do not block each other.  A worker about to
\* snapshot can do so wherever hot_update stands, hot_update about to store
\* can do so however many workers hold the old bundle, and neither a
\* worker outside the print mutex nor hot_update is ever without a step.
NonBlockingSwap ==
  proc = "running" =>
    /\ \A w \in Workers : wpc[w] = "snapshot" => ENABLED WSnapshot(w)
    /\ \A t \in HThreads :
         hu[t].pc = "atomic_store" => ENABLED HAtomicStore(t)
    /\ \A w \in Workers :
         wpc[w] \in {"snapshot", "compute", "record_variant", "release"} =>
           ENABLED WorkerStep(w)
    /\ \A t \in HThreads :
         hu[t].pc \notin {"idle", "ret_true", "ret_false"} =>
           ENABLED HotUpdateStep(t)

\* The controller is about to store while one worker holds the bundle in
\* the slot and another is about to snapshot.
C13Witness ==
  /\ hu["ctrl"].pc = "atomic_store"
  /\ g_operator # 0
  /\ holders[g_operator].rc >= 3
  /\ \E w, v \in Workers :
       wpc[w] = "snapshot" /\ op_ptr[v] = g_operator

\* C14: a snapshot is stable across publishes.  From the snapshot to the
\* end of the round the worker's reference stays on the same bundle, the
\* bundle keeps its module and instance, the score and the name recorded
\* come from that bundle, and the variant counter incremented is the one
\* of the bundle that computed the score.
SnapshotStableInRound ==
  [][\A w \in Workers :
       /\ (op_ptr[w] # 0 /\ op_ptr'[w] # 0) =>
            /\ op_ptr'[w] = op_ptr[w]
            /\ holders'[op_ptr[w]].path = holders[op_ptr[w]].path
            /\ holders'[op_ptr[w]].op = holders[op_ptr[w]].op
            /\ holders'[op_ptr[w]].dtorRuns = 0
       /\ wlocal'[w].by # 0 =>
            /\ wlocal'[w].by = op_ptr'[w]
            /\ wlocal'[w].op_name = NameOf(holders'[op_ptr'[w]].path)
       /\ (wpc[w] = "record_variant" /\ wpc'[w] = "print") =>
            LET n == NameOf(holders[wlocal[w].by].path) IN
            /\ v1_requests' - v1_requests =
                 IF n = "ScoreOperatorV1" THEN 1 ELSE 0
            /\ v2_requests' - v2_requests =
                 IF n = "ScoreOperatorV2" THEN 1 ELSE 0]_vars

\* A worker is about to print a round computed by a bundle of one variant
\* while the slot already holds a bundle of the other variant.
C14Witness ==
  \E w \in Workers :
    /\ wpc[w] = "print"
    /\ wlocal[w].by = op_ptr[w]
    /\ g_operator # op_ptr[w]
    /\ holders[g_operator].path # holders[op_ptr[w]].path
    /\ pubCount >= 3

\* Positions of event e in the log of holder x.
Positions(x, e) == {i \in 1..Len(x.events) : x.events[i] = e}

\* C15: teardown order.  Whenever the module of a bundle that has an
\* instance has been closed, the instance was released through
\* destroy_func, once, and before every dlclose of that bundle.
InstanceBeforeModule ==
  \A b \in Bundles :
    (holders[b].op /\ Positions(holders[b], "dlclose") # {}) =>
      /\ Cardinality(Positions(holders[b], "destroy_func")) = 1
      /\ \A i \in Positions(holders[b], "destroy_func") :
           \A j \in Positions(holders[b], "dlclose") : i < j

\* A published bundle has been torn down: instance, then module.
C15Witness ==
  \E b \in Bundles :
    /\ holders[b].pubIdx > 0
    /\ holders[b].events = <<"dlopen", "destroy_func", "dlclose">>

\* Bundles that were published and are no longer in the slot.
Superseded == {b \in Loaded : holders[b].pubIdx > 0 /\ b # g_operator}

\* C16: superseded bundles are destroyed without a drain step.  A
\* superseded bundle is destroyed as soon as no hot_update local and no
\* worker refers to it, and once main has joined all threads every
\* superseded bundle has been destroyed.
SupersededDestroyedByJoin ==
  /\ \A b \in Superseded : Holders(b) = 0 => holders[b].dtorRuns = 1
  /\ mainPc \in {"final", "done"} =>
       \A b \in Superseded : holders[b].dtorRuns = 1

\* The controller has finished its script and a worker is the last owner
\* of a superseded bundle: the worker's release will destroy it.
C16Witness ==
  /\ ctrlPc = "done"
  /\ \E w \in Workers :
       /\ op_ptr[w] \in Superseded
       /\ holders[op_ptr[w]].rc = 1
       /\ holders[op_ptr[w]].dtorRuns = 0

\* The snapshot of worker w holds nothing it could call.
NothingInstalled(w) ==
  /\ wpc[w] = "compute"
  /\ (op_ptr[w] = 0 \/ ~holders[op_ptr[w]].op)

\* C17: an uninitialized slot is a soft failure.  The step a worker takes
\* after a snapshot that found no bundle or a bundle without an instance
\* calls neither compute_score nor record_request, changes no counter,
\* does not stop the process, and moves the worker to its next round (or
\* to the end of its loop).
EmptySlotSkipsRound ==
  [][\A w \in Workers :
       (NothingInstalled(w) /\ wpc'[w] # wpc[w]) =>
          /\ UNCHANGED statsVars
          /\ UNCHANGED <<wlocal, uaf, proc>>
          /\ round'[w] = round[w] + 1
          /\ op_ptr'[w] = 0
          /\ wpc'[w] = IF round'[w] < total_rounds
                       THEN "snapshot" ELSE "final_lock"]_vars

\* A worker has finished a round and is about to start the next one while
\* the installed bundle has no instance and nothing has been counted.
C17Witness ==
  /\ g_operator # 0
  /\ ~holders[g_operator].op
  /\ total_requests = 0
  /\ \E w \in Workers : round[w] = 1 /\ wpc[w] = "snapshot"

\* ---- scheduling -----------------------------------------------------------
\* As long as some thread can take a step, some thread does.  Fair
\* scheduling of every thread implies it, and it is all that termination
\* needs here because every loop of the program is bounded
\* (main.cpp:121, 158-170, 194).
Fairness == WF_vars(Next)

\* The runs in which every dlopen, dlsym and create() succeeds.
FairInit == Init /\ AllLoadsSucceed

FairSpec == FairInit /\ [][Next]_vars /\ Fairness

\* Every thread has done all its work and main has printed the final
\* statistics.
Terminated ==
  /\ mainPc = "done"
  /\ \A w \in Workers : wpc[w] = "done" /\ round[w] = total_rounds
  /\ ctrlPc = "done"
  /\ ctrlIdx = Len(Script) + 1
  /\ reports = NumReports
  /\ \A t \in PThreads : ps[t] = "idle"
  /\ \A t \in HThreads : hu[t].pc = "idle"
  /\ g_print_mutex = 0

\* C18: termination.  Under fair scheduling, when every load succeeds,
\* each worker performs all its rounds and finishes, the controller makes
\* its three hot_update calls and finishes, the reporter makes all its
\* reports, and main reaches the end of the final statistics print; no
\* thread stays blocked on g_print_mutex.
EventuallyTerminates == <>[]Terminated

\* The terminated state of a run in which every load succeeded.
C18Witness ==
  /\ Terminated
  /\ AllLoadsSucceed
  /\ hot_update_count = Len(Script) + 1

\* The bundles made from module path p that hold a handle and have not
\* been destroyed.
LiveFrom(p) ==
  {b \in Bundles : /\ holders[b].path = p
                   /\ holders[b].handle
                   /\ holders[b].dtorRuns = 0}

\* C19: module code outlives its instances when one module file is loaded
\* repeatedly.  The open count of a module path is at least the number of
\* not yet destroyed bundles made from it, so destroying an older bundle
\* never unloads the module behind a newer live bundle of the same path.
ModuleOutlivesInstances ==
  \A p \in Paths : modOpen[p] >= Cardinality(LiveFrom(p))

\* Two live bundles of one module file: the older one is superseded and
\* only a worker still owns it, the newer one is published.
C19Witness ==
  \E p \in Paths :
    /\ modOpen[p] = 2
    /\ g_operator \in LiveFrom(p)
    /\ \E b \in LiveFrom(p) :
         /\ b < g_operator
         /\ holders[b].rc = 1
         /\ \E w \in Workers : op_ptr[w] = b

\* Thread t is inside hot_update.
InHotUpdate(t) == hu[t].pc \notin {"idle", "ret_true", "ret_false"}

\* Thread t's hot_update has stored and not yet returned.
HasStored(t) == hu[t].pc \in {"count", "return"}

\* C20: single-writer publish.  No two hot_update executions overlap;
\* between a hot_update's atomic_load and its atomic_store the slot still
\* holds the bundle captured as old_holder; and the bundle a store
\* replaced is the one its hot_update captured: the first publish replaced
\* the empty slot, every later one the bundle published just before it.
SingleWriterPublish ==
  /\ ~(InHotUpdate("main") /\ InHotUpdate("ctrl"))
  /\ hu["main"].pc # "idle" => ctrlPc = "notstarted"
  /\ \A t \in HThreads :
       /\ hu[t].pc = "atomic_store" => hu[t].old_holder = g_operator
       /\ HasStored(t) =>
            /\ g_operator = hu[t].new_holder
            /\ holders[g_operator].pubIdx = pubCount
            /\ IF hu[t].old_holder = 0
               THEN pubCount = 1
               ELSE holders[hu[t].old_holder].pubIdx = pubCount - 1

\* The controller's last hot_update has stored: the bundle it captured is
\* the one published just before and is now superseded.
C20Witness ==
  /\ hu["ctrl"].pc = "return"
  /\ pubCount = Len(Script) + 1
  /\ hu["ctrl"].old_holder \in Superseded
  /\ holders[hu["ctrl"].old_holder].pubIdx = Len(Script)
  /\ g_operator = hu["ctrl"].new_holder

====
